---- MODULE Spec2Model ----
(***************************************************************************)
(* State machine of the PDFChatInterface component (src/app/page.js).      *)
(*                                                                         *)
(* JavaScript runs every handler to completion, so each action below is    *)
(* one handler from its start to its first await, or the continuation of a *)
(* handler after its await.  React flushes the state updates of a click    *)
(* before the next event is dispatched, so a handler always reads the      *)
(* state left by the previous action.                                      *)
(*                                                                         *)
(* Encodings: a JavaScript string that is trimmed or split is a sequence   *)
(* of one-character strings; a nullable value is a sequence of length 0    *)
(* (null / undefined) or 1; a JavaScript object is a set of <<key, value>> *)
(* pairs; an alert text is the sequence of the parts concatenated by +.    *)
(***************************************************************************)
EXTENDS Naturals, Integers, Sequences, FiniteSets, Bags, TLC

VARIABLES
    schemaJson,       \* useState("")   line 7
    metadata,         \* useState({})   line 8
    description,      \* useState("")   line 9
    generatedJson,    \* useState({})   line 10
    suggestedPrompt,  \* useState("")   line 11
    userPrompt,       \* useState("")   line 12
    promptResult,     \* useState(null) line 13
    pdfUrl,           \* useState(null) line 15
    fileType,         \* useState("")   line 16
    loading,          \* useState(false) line 17
    uploadedFile,     \* useRef(null)   line 20, its .current
    objectURLs,       \* URLs handed out by URL.createObjectURL
    revokedURLs,      \* URLs passed to URL.revokeObjectURL
    processReqs,      \* requests to /process-document/ awaiting their response
    tryReqs,          \* requests to /try-prompt/ awaiting their response
    saveReqs,         \* requests to /save-prompt/ awaiting their response
    alerts,           \* the alert() calls of the latest handler step, in order
    event,            \* the latest handler step: the event dispatched and its input
    pdfSelections,    \* history: number of PDF files selected so far
    successHandled    \* history: a Process response with success status was handled

resultVars == <<metadata, description, generatedJson, suggestedPrompt>>
textVars   == <<schemaJson, userPrompt>>
fileVars   == <<uploadedFile, fileType, pdfUrl, objectURLs, revokedURLs, pdfSelections>>
netVars    == <<processReqs, tryReqs, saveReqs>>
vars == <<schemaJson, metadata, description, generatedJson, suggestedPrompt,
          userPrompt, promptResult, pdfUrl, fileType, loading, uploadedFile,
          objectURLs, revokedURLs, processReqs, tryReqs, saveReqs, alerts,
          event, pdfSelections, successHandled>>

---------------------------------------------------------------------------
(* Bounds of the model *)

\* most Try and Save requests awaiting a response together
MaxInFlight == 2
\* most preview URLs created in one session
MaxHandles == 2

---------------------------------------------------------------------------
(* Values *)

Null == <<>>
Some(v) == <<v>>

WhiteSpace == {" "}

\* e.target.value of a textarea: empty, whitespace only, text inside whitespace
Texts == {<<>>, <<" ">>, <<" ", "a", " ">>}

\* String.prototype.trim
RECURSIVE TrimStart(_)
TrimStart(s) ==
    IF s # <<>> /\ Head(s) \in WhiteSpace THEN TrimStart(Tail(s)) ELSE s

RECURSIVE TrimEnd(_)
TrimEnd(s) ==
    IF s # <<>> /\ s[Len(s)] \in WhiteSpace
    THEN TrimEnd(SubSeq(s, 1, Len(s) - 1))
    ELSE s

Trim(s) == TrimEnd(TrimStart(s))

\* String.prototype.split(".")
RECURSIVE Split(_)
Split(s) ==
    IF \E i \in 1..Len(s) : s[i] = "."
    THEN LET i == CHOOSE j \in 1..Len(s) :
                      s[j] = "." /\ \A k \in 1..(j - 1) : s[k] # "."
         IN  <<SubSeq(s, 1, i - 1)>> \o Split(SubSeq(s, i + 1, Len(s)))
    ELSE <<s>>

\* Array.prototype.pop, its return value
Pop(a) == a[Len(a)]

LowerChar(c) ==
    CASE c = "P" -> "p"
      [] c = "D" -> "d"
      [] c = "F" -> "f"
      [] OTHER   -> c

\* String.prototype.toLowerCase
ToLowerCase(s) == [i \in 1..Len(s) |-> LowerChar(s[i])]

\* file.name.split(".").pop().toLowerCase()
ExtOf(file) == ToLowerCase(Pop(Split(file.name)))

PdfExt == <<"p", "d", "f">>

\* the files the picker can hand over
Files ==
    { [name |-> <<"a", ".", "p", "d", "f">>],
      [name |-> <<"b", ".", "P", "D", "F">>],
      [name |-> <<"c", ".", "p", "d", "f", ".", "x", "l", "s">>] }

\* event.target.files: empty when the picker is cancelled
FileLists == {<<>>} \cup {<<f>> : f \in Files}

\* obj.key of a JavaScript object
Has(obj, key) == \E p \in obj : p[1] = key
Get(obj, key) == (CHOOSE p \in obj : p[1] = key)[2]

\* !!metadata.layout
HasLayout(m) == Has(m, "layout") /\ Get(m, "layout") # ""

\* x || ""
OrEmpty(opt) == IF opt = Null \/ opt = Some("") THEN "" ELSE opt[1]

\* "..." + x
StringOf(opt) == IF opt = Null THEN "undefined" ELSE opt[1]

---------------------------------------------------------------------------
(* What the backend can answer *)

ProcessData ==
    { [status |-> "success", message |-> Null,
       metadata |-> {<<"layout", "L1">>},
       structured_markdown |-> "md1",
       generated_json |-> {<<"order_id", "123">>},
       suggested_prompt |-> Some("sp1")],
      [status |-> "success", message |-> Null,
       metadata |-> {<<"pages", "2">>},
       structured_markdown |-> "md2",
       generated_json |-> {<<"order_id", "456">>},
       suggested_prompt |-> Null],
      [status |-> "error", message |-> Some("bad schema"),
       metadata |-> {<<"layout", "L3">>},
       structured_markdown |-> "md3",
       generated_json |-> {<<"order_id", "789">>},
       suggested_prompt |-> Some("sp3")] }

ProcessOutcomes ==
    {[fulfilled |-> TRUE, data |-> d] : d \in ProcessData}
        \cup {[fulfilled |-> FALSE, message |-> "Network Error"]}

TryOutcomes ==
    { [fulfilled |-> TRUE, data |-> [result |-> {<<"ok", "true">>}]],
      [fulfilled |-> FALSE, message |-> "Network Error"] }

SaveOutcomes == {[fulfilled |-> TRUE], [fulfilled |-> FALSE]}

---------------------------------------------------------------------------
(* Alert texts *)

AlertNoFile == <<"Please upload a file first.">>
AlertNoSchema == <<"Please provide schema JSON in the textarea.">>
AlertServerError(message) == <<"Error: ", StringOf(message)>>
AlertApiFailed(message) == <<"API call failed: ", message>>
AlertMissingPromptOrLayout == <<"Missing prompt or layout">>
AlertSaved == <<"Prompt saved to Supabase!">>
AlertSaveFailed == <<"Failed to save prompt">>

---------------------------------------------------------------------------
Init ==
    /\ schemaJson = <<>>
    /\ metadata = {}
    /\ description = ""
    /\ generatedJson = {}
    /\ suggestedPrompt = ""
    /\ userPrompt = <<>>
    /\ promptResult = Null
    /\ pdfUrl = Null
    /\ fileType = <<>>
    /\ loading = FALSE
    /\ uploadedFile = Null
    /\ objectURLs = {}
    /\ revokedURLs = {}
    /\ processReqs = EmptyBag
    /\ tryReqs = EmptyBag
    /\ saveReqs = EmptyBag
    /\ alerts = <<>>
    /\ event = [type |-> "mount"]
    /\ pdfSelections = 0
    /\ successHandled = FALSE

---------------------------------------------------------------------------
(* The two textareas *)

SchemaChange(value) ==
    /\ schemaJson' = value
    /\ alerts' = <<>>
    /\ event' = [type |-> "schemaChange"]
    /\ UNCHANGED <<resultVars, userPrompt, promptResult, loading, fileVars,
                   netVars, successHandled>>

PromptChange(value) ==
    /\ userPrompt' = value
    /\ alerts' = <<>>
    /\ event' = [type |-> "promptChange"]
    /\ UNCHANGED <<resultVars, schemaJson, promptResult, loading, fileVars,
                   netVars, successHandled>>

---------------------------------------------------------------------------
(* handleFileUpload, lines 23-37 *)

\* ext === "pdf"
IsPdf(file) == ExtOf(file) = PdfExt

\* URL.createObjectURL returns a URL it has not returned before
FreshObjectURL == Cardinality(objectURLs) + 1

RevokedByUpload_ReleasePrevious == revokedURLs \cup {pdfUrl[i] : i \in 1..Len(pdfUrl)}

\* the URLs revoked once handleFileUpload has run: it calls no revokeObjectURL
RevokedByUpload == revokedURLs

\* the preview handles still held by the page
LiveHandles == objectURLs \ revokedURLs

FileChange(files) ==
    /\ event' = [type |-> "fileChange", files |-> files]
    /\ alerts' = <<>>
    /\ IF files # <<>>
       THEN LET file == files[1] IN
            /\ uploadedFile' = Some(file)
            /\ fileType' = ExtOf(file)
            /\ IF IsPdf(file)
               THEN /\ Cardinality(objectURLs) < MaxHandles
                    /\ objectURLs' = objectURLs \cup {FreshObjectURL}
                    /\ pdfUrl' = Some(FreshObjectURL)
                    /\ pdfSelections' = pdfSelections + 1
               ELSE /\ pdfUrl' = Null
                    /\ UNCHANGED <<objectURLs, pdfSelections>>
            /\ revokedURLs' = RevokedByUpload
       ELSE UNCHANGED fileVars
    /\ UNCHANGED <<resultVars, textVars, promptResult, loading, netVars,
                   successHandled>>

---------------------------------------------------------------------------
(* handleProcessFile, lines 40-77, and the Process button, lines 137-145 *)

ProcessDisabled_NoGuard == FALSE

\* disabled={loading}
ProcessDisabled == loading

\* !uploadedFile.current
MissingFile == uploadedFile = Null

BlankSchema_NoTrim == schemaJson = <<>>

\* !schemaJson.trim()
BlankSchema == Trim(schemaJson) = <<>>

\* the FormData posted to /process-document/
ProcessRequest == [file |-> uploadedFile[1], schema_json |-> schemaJson]

ClickProcess ==
    /\ ~ProcessDisabled
    /\ event' = [type |-> "clickProcess"]
    /\ IF MissingFile
       THEN /\ alerts' = <<AlertNoFile>>
            /\ UNCHANGED <<loading, processReqs>>
       ELSE IF BlankSchema
       THEN /\ alerts' = <<AlertNoSchema>>
            /\ UNCHANGED <<loading, processReqs>>
       ELSE /\ alerts' = <<>>
            /\ loading' = TRUE
            /\ processReqs' = processReqs (+) SetToBag({ProcessRequest})
    /\ UNCHANGED <<resultVars, textVars, promptResult, fileVars, tryReqs,
                   saveReqs, successHandled>>

IsSuccess_Always(data) == TRUE

\* response.data.status === "success"
IsSuccess(data) == data.status = "success"

\* setMetadata(response.data.metadata)
NewMetadata(data) == data.metadata

NewDescription_Stale(data) == description

\* setDescription(response.data.structured_markdown)
NewDescription(data) == data.structured_markdown

\* setGeneratedJson(response.data.generated_json)
NewGeneratedJson(data) == data.generated_json

\* setSuggestedPrompt(response.data.suggested_prompt || "")
NewSuggestedPrompt(data) == OrEmpty(data.suggested_prompt)

LoadingFinally_Kept == loading

\* finally { setLoading(false) }
LoadingFinally == FALSE

ProcessResponse(req, outcome) ==
    /\ BagIn(req, processReqs)
    /\ processReqs' = processReqs (-) SetToBag({req})
    /\ event' = [type |-> "processResponse", outcome |-> outcome]
    /\ IF outcome.fulfilled
       THEN IF IsSuccess(outcome.data)
            THEN /\ metadata' = NewMetadata(outcome.data)
                 /\ description' = NewDescription(outcome.data)
                 /\ generatedJson' = NewGeneratedJson(outcome.data)
                 /\ suggestedPrompt' = NewSuggestedPrompt(outcome.data)
                 /\ successHandled' = TRUE
                 /\ alerts' = <<>>
            ELSE /\ alerts' = <<AlertServerError(outcome.data.message)>>
                 /\ UNCHANGED <<resultVars, successHandled>>
       ELSE /\ alerts' = <<AlertApiFailed(outcome.message)>>
            /\ UNCHANGED <<resultVars, successHandled>>
    /\ loading' = LoadingFinally
    /\ UNCHANGED <<textVars, promptResult, fileVars, tryReqs, saveReqs>>

---------------------------------------------------------------------------
(* handleTryPrompt, lines 80-94, and the Try button, lines 240-245 *)

\* Try and Save requests awaiting a response
PendingPromptCalls == BagCardinality(tryReqs) + BagCardinality(saveReqs)

TryDisabled_WhileLoading == loading

\* the Try button carries no disabled attribute
TryDisabled == FALSE

TryPrecondition_NoTrim == userPrompt # <<>>

\* userPrompt.trim() is non-empty
TryPrecondition == Trim(userPrompt) # <<>>

\* if (!userPrompt.trim()) return;
TryRejectAlerts == <<>>

\* the JSON body posted to /try-prompt/
TryRequest == [prompt |-> userPrompt, structured_markdown |-> description]

ClickTry ==
    /\ ~TryDisabled
    /\ event' = [type |-> "clickTry"]
    /\ IF TryPrecondition
       THEN /\ PendingPromptCalls < MaxInFlight
            /\ tryReqs' = tryReqs (+) SetToBag({TryRequest})
            /\ alerts' = <<>>
       ELSE /\ alerts' = TryRejectAlerts
            /\ UNCHANGED tryReqs
    /\ UNCHANGED <<resultVars, textVars, promptResult, loading, fileVars,
                   processReqs, saveReqs, successHandled>>

TryFailureResult_Null == Null

\* setPromptResult({ error: "Failed to try prompt" })
TryFailureResult == Some({<<"error", "Failed to try prompt">>})

TryResponse(req, outcome) ==
    /\ BagIn(req, tryReqs)
    /\ tryReqs' = tryReqs (-) SetToBag({req})
    /\ event' = [type |-> "tryResponse", outcome |-> outcome]
    /\ promptResult' = IF outcome.fulfilled
                       THEN Some(outcome.data.result)
                       ELSE TryFailureResult
    /\ alerts' = <<>>
    /\ UNCHANGED <<resultVars, textVars, loading, fileVars, processReqs,
                   saveReqs, successHandled>>

---------------------------------------------------------------------------
(* handleSavePrompt, lines 97-114, and the Save button, lines 246-251 *)

\* the Save button carries no disabled attribute
SaveDisabled == FALSE

SavePrecondition_NoLayoutCheck == Trim(userPrompt) # <<>>

\* !( !userPrompt.trim() || !metadata.layout )
SavePrecondition == Trim(userPrompt) # <<>> /\ HasLayout(metadata)

\* the JSON body posted to /save-prompt/
SaveRequest ==
    [layout |-> IF Has(metadata, "layout") THEN Some(Get(metadata, "layout")) ELSE Null,
     prompt |-> userPrompt]

ClickSave ==
    /\ ~SaveDisabled
    /\ event' = [type |-> "clickSave"]
    /\ IF SavePrecondition
       THEN /\ PendingPromptCalls < MaxInFlight
            /\ saveReqs' = saveReqs (+) SetToBag({SaveRequest})
            /\ alerts' = <<>>
       ELSE /\ alerts' = <<AlertMissingPromptOrLayout>>
            /\ UNCHANGED saveReqs
    /\ UNCHANGED <<resultVars, textVars, promptResult, loading, fileVars,
                   processReqs, tryReqs, successHandled>>

SaveResponse(req, outcome) ==
    /\ BagIn(req, saveReqs)
    /\ saveReqs' = saveReqs (-) SetToBag({req})
    /\ event' = [type |-> "saveResponse", outcome |-> outcome]
    /\ alerts' = IF outcome.fulfilled THEN <<AlertSaved>> ELSE <<AlertSaveFailed>>
    /\ UNCHANGED <<resultVars, textVars, promptResult, loading, fileVars,
                   processReqs, tryReqs, successHandled>>

---------------------------------------------------------------------------
Next ==
    \/ \E value \in Texts : SchemaChange(value)
    \/ \E value \in Texts : PromptChange(value)
    \/ \E files \in FileLists : FileChange(files)
    \/ ClickProcess
    \/ \E req \in BagToSet(processReqs), outcome \in ProcessOutcomes :
           ProcessResponse(req, outcome)
    \/ ClickTry
    \/ \E req \in BagToSet(tryReqs), outcome \in TryOutcomes :
           TryResponse(req, outcome)
    \/ ClickSave
    \/ \E req \in BagToSet(saveReqs), outcome \in SaveOutcomes :
           SaveResponse(req, outcome)

Spec == Init /\ [][Next]_vars

---------------------------------------------------------------------------
(* Vocabulary of the properties *)

NumProcessInFlight == BagCardinality(processReqs)

\* every useState field and the file ref of the component
componentState ==
    <<schemaJson, metadata, description, generatedJson, suggestedPrompt,
      userPrompt, promptResult, pdfUrl, fileType, loading, uploadedFile>>

ResultsInitial ==
    /\ metadata = {}
    /\ description = ""
    /\ generatedJson = {}
    /\ suggestedPrompt = ""

\* the four result fields are those of the response body d
ResultsFrom(d) ==
    /\ metadata = d.metadata
    /\ description = d.structured_markdown
    /\ generatedJson = d.generated_json
    /\ suggestedPrompt = IF d.suggested_prompt = Null THEN "" ELSE d.suggested_prompt[1]

\* this step handles a Process response with success status
SuccessResponseStep ==
    /\ event'.type = "processResponse"
    /\ event'.outcome.fulfilled
    /\ event'.outcome.data.status = "success"

\* this step handles a Process response that is not a success
FailureResponseStep ==
    /\ event'.type = "processResponse"
    /\ ~(event'.outcome.fulfilled /\ event'.outcome.data.status = "success")

\* this step is a click that fails the handler's local precondition
ProcessRejectedStep ==
    /\ event'.type = "clickProcess"
    /\ (uploadedFile = Null \/ Trim(schemaJson) = <<>>)

TryRejectedStep == event'.type = "clickTry" /\ Trim(userPrompt) = <<>>

SaveRejectedStep ==
    /\ event'.type = "clickSave"
    /\ (Trim(userPrompt) = <<>> \/ ~HasLayout(metadata))

---------------------------------------------------------------------------
\* C1: a click on Process issues a request to /process-document/ only if a
\* file is selected and the trimmed schema is non-empty; with no file it
\* raises the missing-file alert (checked first), with a file and a blank
\* schema the missing-schema alert, and in both cases no request is issued,
\* loading stays false and no state field changes.
C1_ProcessGate ==
    [][ /\ event'.type = "clickProcess" =>
             IF uploadedFile = Null
             THEN /\ alerts' = <<AlertNoFile>>
                  /\ ~loading /\ ~loading'
                  /\ UNCHANGED <<componentState, netVars>>
             ELSE IF Trim(schemaJson) = <<>>
             THEN /\ alerts' = <<AlertNoSchema>>
                  /\ ~loading /\ ~loading'
                  /\ UNCHANGED <<componentState, netVars>>
             ELSE /\ alerts' = <<>>
                  /\ processReqs' = processReqs (+)
                        SetToBag({[file |-> uploadedFile[1], schema_json |-> schemaJson]})
        /\ processReqs' # processReqs /\ NumProcessInFlight' > NumProcessInFlight =>
             /\ event'.type = "clickProcess"
             /\ uploadedFile # Null
             /\ Trim(schemaJson) # <<>>
      ]_vars

C1_Witness ==
    /\ event.type = "clickProcess"
    /\ uploadedFile # Null
    /\ schemaJson = <<" ">>
    /\ alerts = <<AlertNoSchema>>
    /\ processReqs = EmptyBag

\* C2: a Process response with success status replaces metadata, description,
\* generatedJson and suggestedPrompt from that one response in a single step
\* (suggestedPrompt becomes "" when the response carries none), and between
\* handlers the four fields are all initial or all from one successful response.
C2_AtomicResults ==
    /\ [](ResultsInitial \/ \E d \in ProcessData : d.status = "success" /\ ResultsFrom(d))
    /\ [][ SuccessResponseStep =>
             LET d == event'.outcome.data IN
             /\ metadata' = d.metadata
             /\ description' = d.structured_markdown
             /\ generatedJson' = d.generated_json
             /\ suggestedPrompt' =
                   IF d.suggested_prompt = Null THEN "" ELSE d.suggested_prompt[1]
         ]_vars

C2_Witness ==
    /\ event.type = "processResponse"
    /\ event.outcome.fulfilled
    /\ event.outcome.data.status = "success"
    /\ event.outcome.data.suggested_prompt = Null
    /\ ResultsFrom(event.outcome.data)
    /\ suggestedPrompt = ""

\* C3: a Process response that is not a success (other status, or transport
\* failure) raises exactly one alert, containing the server's message or the
\* error's message, and leaves the four result fields, the selected file,
\* the schema text, the user prompt and the prompt result as they were.
C3_FailureKeepsState ==
    [][ FailureResponseStep =>
          /\ Len(alerts') = 1
          /\ \E i \in 1..Len(alerts'[1]) :
                alerts'[1][i] = IF event'.outcome.fulfilled
                                THEN event'.outcome.data.message[1]
                                ELSE event'.outcome.message
          /\ UNCHANGED <<resultVars, uploadedFile, schemaJson, userPrompt, promptResult>>
      ]_vars

C3_Witness ==
    /\ event.type = "processResponse"
    /\ event.outcome.fulfilled
    /\ event.outcome.data.status = "error"
    /\ alerts = <<(<<"Error: ", "bad schema">>)>>
    /\ description = "md1"
    /\ metadata = {<<"layout", "L1">>}

\* C4: a request to /save-prompt/ is issued only if the user prompt is
\* non-blank and metadata holds a layout identifier, hence only after a
\* Process response with success status has been handled; it carries the
\* layout and the prompt current at the click.
C4_SaveAfterSuccess ==
    [][ saveReqs' # saveReqs /\ BagCardinality(saveReqs') > BagCardinality(saveReqs) =>
          /\ event'.type = "clickSave"
          /\ Trim(userPrompt) # <<>>
          /\ Has(metadata, "layout")
          /\ Get(metadata, "layout") # ""
          /\ successHandled
          /\ saveReqs' = saveReqs (+)
                SetToBag({[layout |-> Some(Get(metadata, "layout")), prompt |-> userPrompt]})
      ]_vars

C4_Witness ==
    /\ event.type = "clickSave"
    /\ saveReqs # EmptyBag
    /\ alerts = <<>>

\* C5 as stated: each of the four local precondition failures (missing file,
\* empty schema, empty prompt on Try and on Save, missing layout) raises an
\* alert in the triggering click and issues no request.
C5_AllFailuresAlert ==
    [][ ProcessRejectedStep \/ TryRejectedStep \/ SaveRejectedStep =>
          /\ Len(alerts') >= 1
          /\ UNCHANGED netVars
      ]_vars

\* C5: a click on Process with no file or a blank schema, and a click on Save
\* with a blank prompt or no layout, raise one alert and issue no request; a
\* click on Try with a blank prompt issues no request and raises no alert.
C5_FailuresIssueNothing ==
    [][ /\ ProcessRejectedStep \/ SaveRejectedStep =>
             Len(alerts') = 1 /\ UNCHANGED netVars
        /\ TryRejectedStep =>
             alerts' = <<>> /\ UNCHANGED netVars
      ]_vars

C5_Witness ==
    /\ event.type = "clickTry"
    /\ userPrompt = <<" ">>
    /\ alerts = <<>>
    /\ tryReqs = EmptyBag

\* C6: a Try request carries the prompt and the description current at the
\* click; a successful response sets promptResult to its result field, a
\* failed one to {error: "Failed to try prompt"}; neither path raises an
\* alert or changes any field other than promptResult.
C6_TryOutcome ==
    [][ /\ event'.type = "clickTry" /\ Trim(userPrompt) # <<>> =>
             /\ tryReqs' = tryReqs (+)
                   SetToBag({[prompt |-> userPrompt, structured_markdown |-> description]})
             /\ alerts' = <<>>
             /\ UNCHANGED <<componentState, processReqs, saveReqs>>
        /\ event'.type = "tryResponse" =>
             /\ promptResult' = IF event'.outcome.fulfilled
                                THEN <<event'.outcome.data.result>>
                                ELSE <<{<<"error", "Failed to try prompt">>}>>
             /\ alerts' = <<>>
             /\ UNCHANGED <<resultVars, loading, uploadedFile, fileType, pdfUrl,
                            schemaJson, userPrompt>>
      ]_vars

C6_Witness ==
    /\ event.type = "tryResponse"
    /\ ~event.outcome.fulfilled
    /\ promptResult = <<{<<"error", "Failed to try prompt">>}>>
    /\ alerts = <<>>

\* C7: loading is true exactly when a Process request is in flight, and the
\* Process control is disabled exactly when loading is true; once the request
\* has ended in any way loading is false and Process can be clicked again; a
\* click that fails the precondition leaves loading false.
C7_LoadingTracksProcess ==
    /\ loading <=> NumProcessInFlight >= 1
    /\ ProcessDisabled <=> NumProcessInFlight >= 1
    /\ event.type = "processResponse" => ~loading /\ ENABLED ClickProcess
    /\ event.type = "clickProcess" /\ alerts # <<>> => ~loading

C7_Witness ==
    /\ event.type = "processResponse"
    /\ ~event.outcome.fulfilled
    /\ ~loading
    /\ processReqs = EmptyBag

\* C8 as stated: nothing guards a second Process click while a Process
\* request is in flight, so with a file and a schema present the click can
\* issue a second, overlapping request.
C8_SecondClickUnguarded ==
    NumProcessInFlight >= 1 /\ uploadedFile # Null /\ Trim(schemaJson) # <<>>
        => ENABLED (ClickProcess /\ processReqs' # processReqs)

\* C8: Process calls never overlap: while a Process request is in flight the
\* Process control is disabled and a click cannot issue a second request, so
\* at most one is in flight; the four result fields hold the values of the
\* successful response handled last.
C8_NoOverlap ==
    /\ [](/\ NumProcessInFlight <= 1
          /\ NumProcessInFlight = 1 => ProcessDisabled /\ ~ENABLED ClickProcess)
    /\ [][ SuccessResponseStep => ResultsFrom(event.outcome.data)' ]_vars

C8_Witness ==
    /\ NumProcessInFlight = 1
    /\ uploadedFile # Null
    /\ Trim(schemaJson) # <<>>
    /\ loading
    /\ successHandled

\* C9: in every state, whatever is in flight, a Try request can be issued
\* when the prompt is non-blank and a Save request when the prompt is
\* non-blank and metadata holds a layout (below the model's cap on pending
\* calls); Try and Save steps never change loading; a Process click issues
\* its request whenever loading is false, whatever Try or Save is pending.
C9_Independent ==
    /\ [](/\ Trim(userPrompt) # <<>> /\ PendingPromptCalls < MaxInFlight =>
               ENABLED (ClickTry /\ tryReqs' # tryReqs)
          /\ Trim(userPrompt) # <<>> /\ HasLayout(metadata)
                                    /\ PendingPromptCalls < MaxInFlight =>
               ENABLED (ClickSave /\ saveReqs' # saveReqs)
          /\ ~loading /\ uploadedFile # Null /\ Trim(schemaJson) # <<>> =>
               ENABLED (ClickProcess /\ processReqs' # processReqs))
    /\ [][ event'.type \in {"clickTry", "tryResponse", "clickSave", "saveResponse"} =>
             loading' = loading ]_vars

C9_Witness ==
    /\ NumProcessInFlight = 1
    /\ BagCardinality(tryReqs) = 1
    /\ Trim(userPrompt) # <<>>
    /\ HasLayout(metadata)
    /\ PendingPromptCalls < MaxInFlight

\* C10: at most one file reference is stored and each non-empty selection
\* overwrites it (a cancelled picker changes nothing); each PDF selection
\* creates one new preview handle and nothing releases a handle, so the
\* unreleased handles number the PDF selections made and never decrease; a
\* non-PDF selection sets pdfUrl to null without releasing a handle.
C10_FileAndHandles ==
    /\ [](/\ Len(uploadedFile) <= 1
          /\ Cardinality(LiveHandles) = pdfSelections)
    /\ [][ /\ LiveHandles \subseteq LiveHandles'
           /\ event'.type = "fileChange" =>
                IF event'.files = <<>>
                THEN UNCHANGED <<uploadedFile, fileType, pdfUrl, objectURLs, revokedURLs>>
                ELSE /\ uploadedFile' = event'.files
                     /\ IF ToLowerCase(Pop(Split(event'.files[1].name))) = <<"p", "d", "f">>
                        THEN /\ Cardinality(LiveHandles') = Cardinality(LiveHandles) + 1
                             /\ Len(pdfUrl') = 1
                             /\ pdfUrl'[1] \in LiveHandles' \ LiveHandles
                        ELSE /\ pdfUrl' = Null
                             /\ LiveHandles' = LiveHandles
           /\ event'.type # "fileChange" =>
                UNCHANGED <<uploadedFile, fileType, pdfUrl, objectURLs, revokedURLs>>
         ]_vars

C10_Witness ==
    /\ event.type = "fileChange"
    /\ pdfSelections = 2
    /\ Cardinality(LiveHandles) = 2
    /\ pdfUrl = Null
    /\ uploadedFile = <<[name |-> <<"c", ".", "p", "d", "f", ".", "x", "l", "s">>]>>

====
